---------------------------- MODULE Spec2Model ----------------------------
(***************************************************************************)
(* A model of tors_lattice.py: the class FiniteTorsLattice, a finite       *)
(* lattice regarded as the lattice of torsion classes, and the module      *)
(* functions _kappa and _extended_kappa.                                   *)
(*                                                                         *)
(* A lattice is a record [n, le]: its elements are 0 .. n-1 and le is the  *)
(* set of pairs <<x, y>> with x below or equal to y.  The numbering is a   *)
(* linear extension of the order, as the vertex numbering of a Sage Hasse  *)
(* diagram is: vertex 0 is the bottom and vertex n-1 the top.              *)
(***************************************************************************)
EXTENDS Integers, FiniteSets, Sequences, TLC

VARIABLES lattice, tors, cache, calls, ret

vars == <<lattice, tors, cache, calls, ret>>

\* ret is the last call and its outcome: <<method, arguments, keyword
\* arguments, "ok" or "raise", value returned or error raised>>.
Op == ret[1]

Args == ret[2]

Kwargs == ret[3]

Status == ret[4]

Value == ret[5]

\* The largest number of elements of a lattice the model draws.
MaxSize == 6

\* The largest number of calls the model follows on one instance.
MaxCalls == 2

\* The specification of the memo tables follows MemoCalls calls of the
\* memoized methods on the lattices of at most MemoSize elements.
MemoSize == 3

MemoCalls == 2

\* Python's None: the absent value of _kappa, _extended_kappa, canonical_joinands.
None == -1

-----------------------------------------------------------------------------
(* The finite lattices with n elements, one of each shape.  A lattice is   *)
(* held as Sage holds it: the order, the covers of the Hasse diagram and   *)
(* the matrices of joins and meets.                                        *)

Elems(L) == 0 .. (L.n - 1)

MidPairs(n) == {p \in (1 .. (n - 2)) \X (1 .. (n - 2)) : p[1] < p[2]}

OrderOf(n, R) ==
    {p \in (0 .. (n - 1)) \X (0 .. (n - 1)) :
        p[1] = p[2] \/ (p[1] < p[2] /\ (p[1] = 0 \/ p[2] = n - 1 \/ p \in R))}

IsTransitive(n, le) ==
    \A p \in le : \A z \in 0 .. (n - 1) : (<<p[2], z>> \in le) => (<<p[1], z>> \in le)

UpperBounds(L, x, y) == {z \in Elems(L) : <<x, z>> \in L.le /\ <<y, z>> \in L.le}

LowerBounds(L, x, y) == {z \in Elems(L) : <<z, x>> \in L.le /\ <<z, y>> \in L.le}

HasJoin(L, x, y) ==
    \E z \in UpperBounds(L, x, y) : \A w \in UpperBounds(L, x, y) : <<z, w>> \in L.le

HasMeet(L, x, y) ==
    \E z \in LowerBounds(L, x, y) : \A w \in LowerBounds(L, x, y) : <<w, z>> \in L.le

IsLattice(L) ==
    /\ IsTransitive(L.n, L.le)
    /\ \A x, y \in Elems(L) : HasJoin(L, x, y) /\ HasMeet(L, x, y)

\* Two numberings of one shape differ by a permutation of the middle elements;
\* the model keeps the numbering whose set of pairs comes first.
PairIndex(p) == p[1] * 16 + p[2]

ComesFirst(R, Q) ==
    \/ R = Q
    \/ LET d == (R \ Q) \cup (Q \ R)
           m == CHOOSE p \in d : \A q \in d : PairIndex(q) <= PairIndex(p)
       IN  m \in Q

IsCanonical(n, R) ==
    \A pi \in Permutations(1 .. (n - 2)) :
        (\A p \in R : pi[p[1]] < pi[p[2]]) => ComesFirst(R, {<<pi[p[1]], pi[p[2]]>> : p \in R})

Covers(L, x, y) ==
    /\ x # y
    /\ <<x, y>> \in L.le
    /\ \A z \in Elems(L) : (<<x, z>> \in L.le /\ <<z, y>> \in L.le) => (z = x \/ z = y)

HasseOf(L) ==
    [n |-> L.n,
     le |-> L.le,
     up |-> [x \in Elems(L) |-> {y \in Elems(L) : Covers(L, x, y)}],
     lo |-> [x \in Elems(L) |-> {y \in Elems(L) : Covers(L, y, x)}],
     jn |-> [p \in Elems(L) \X Elems(L) |->
                CHOOSE z \in UpperBounds(L, p[1], p[2]) :
                    \A w \in UpperBounds(L, p[1], p[2]) : <<z, w>> \in L.le],
     mt |-> [p \in Elems(L) \X Elems(L) |->
                CHOOSE z \in LowerBounds(L, p[1], p[2]) :
                    \A w \in LowerBounds(L, p[1], p[2]) : <<w, z>> \in L.le]]

LatticesOfSize(n) ==
    {HasseOf([n |-> n, le |-> OrderOf(n, R)]) :
        R \in {Q \in SUBSET MidPairs(n) :
                  IsLattice([n |-> n, le |-> OrderOf(n, Q)]) /\ IsCanonical(n, Q)}}

Lattices == UNION {LatticesOfSize(n) : n \in 1 .. MaxSize}

-----------------------------------------------------------------------------
(* The lattice primitives of Sage's FiniteLatticePoset the module calls.   *)

is_lequal(L, x, y) == <<x, y>> \in L.le

is_gequal(L, x, y) == <<y, x>> \in L.le

bottom(L) == CHOOSE x \in Elems(L) : \A y \in Elems(L) : is_lequal(L, x, y)

top(L) == CHOOSE x \in Elems(L) : \A y \in Elems(L) : is_lequal(L, y, x)

upper_covers(L, x) == L.up[x]

lower_covers(L, x) == L.lo[x]

join2(L, x, y) == L.jn[<<x, y>>]

meet2(L, x, y) == L.mt[<<x, y>>]

\* lattice.join(list): the join of the list, folded from the bottom.
RECURSIVE join(_, _)
join(L, S) ==
    IF S = {} THEN bottom(L)
    ELSE LET x == CHOOSE x \in S : TRUE IN join2(L, x, join(L, S \ {x}))

\* lattice.meet(list): the meet of the list, folded from the top.
RECURSIVE meet(_, _)
meet(L, S) ==
    IF S = {} THEN top(L)
    ELSE LET x == CHOOSE x \in S : TRUE IN meet2(L, x, meet(L, S \ {x}))

join_irreducibles(L) == {x \in Elems(L) : Cardinality(lower_covers(L, x)) = 1}

is_semidistributive(L) ==
    \A x, y, z \in Elems(L) :
        /\ (join2(L, x, y) = join2(L, x, z)) => (join2(L, x, meet2(L, y, z)) = join2(L, x, y))
        /\ (meet2(L, x, y) = meet2(L, x, z)) => (meet2(L, x, join2(L, y, z)) = meet2(L, x, y))

-----------------------------------------------------------------------------
(* Sage's HasseDiagram.kappa and FiniteLatticePoset.canonical_joinands.    *)

\* hasse.kappa(j_vtx): the elements above the lower cover of a and not above
\* a, searched upwards from the lower cover; the one among them all of whose
\* upper covers are above a, or None when there are several.
hasse_kappa(L, a) ==
    LET lc == CHOOSE y \in lower_covers(L, a) : TRUE
        tmp == {x \in Elems(L) : is_lequal(L, lc, x) /\ ~is_lequal(L, a, x)}
        maximal == {e \in tmp : \A u \in upper_covers(L, e) : is_lequal(L, a, u)}
    IN  IF Cardinality(maximal) = 1 THEN CHOOSE e \in maximal : TRUE ELSE None

\* lattice.canonical_joinands(x): for each lower cover a of e the least
\* element below e and not below a; None when some lower cover has none.
\* The result is a list of elements, so its None is written NoJoinands, a
\* set that no list of elements equals.
NoJoinands == {None}

DownNotBelow(L, e, a) == {x \in Elems(L) : is_lequal(L, x, e) /\ ~is_lequal(L, x, a)}

MinimalOf(L, D) == {x \in D : \A y \in D : is_lequal(L, y, x) => y = x}

canonical_joinands(L, e) ==
    IF \E a \in lower_covers(L, e) : Cardinality(MinimalOf(L, DownNotBelow(L, e, a))) # 1
    THEN NoJoinands
    ELSE {CHOOSE j \in MinimalOf(L, DownNotBelow(L, e, a)) : TRUE : a \in lower_covers(L, e)}

-----------------------------------------------------------------------------
(* The module functions.                                                   *)

\* A variant of _kappa that stops at the lower cover of j instead of
\* climbing to the largest element above it and not above j.
_kappa_lower_cover(L, j) ==
    LET lc == lower_covers(L, j)
    IN  IF Cardinality(lc) # 1 THEN None ELSE CHOOSE y \in lc : TRUE

_kappa(L, j) ==
    LET m_vtx == hasse_kappa(L, j)
    IN  IF m_vtx = None THEN None ELSE m_vtx

\* lattice.meet(kappa_CJR) raises when the list holds None, no element of
\* the lattice.
meet_of_list(L, S) ==
    IF None \in S THEN [st |-> "raise", v |-> "NotAnElement"]
    ELSE [st |-> "ok", v |-> meet(L, S)]

\* A variant of _extended_kappa without the except clause around the meet.
_extended_kappa_no_except(L, x) ==
    LET CJR == canonical_joinands(L, x)
    IN  IF CJR = NoJoinands THEN [st |-> "ok", v |-> None]
        ELSE meet_of_list(L, {_kappa(L, j) : j \in CJR})

\* How a call _extended_kappa(lattice, x) ends: the except clause turns a
\* failure of the meet into the return of None.
_extended_kappa_call(L, x) ==
    LET CJR == canonical_joinands(L, x)
    IN  IF CJR = NoJoinands THEN [st |-> "ok", v |-> None]
        ELSE LET kappa_CJR == {_kappa(L, j) : j \in CJR}
                 tried == meet_of_list(L, kappa_CJR)
             IN  IF tried.st = "raise" THEN [st |-> "ok", v |-> None] ELSE tried

_extended_kappa(L, x) == _extended_kappa_call(L, x).v

-----------------------------------------------------------------------------
(* cached_method: a memo table per instance, keyed by the method, its      *)
(* arguments and its keyword arguments.  A call that finds its key returns *)
(* the entry and runs nothing; a call that returns normally writes its     *)
(* entry; a call that raises writes none, the entries of the calls that    *)
(* returned inside it stay.  An outcome is [st, v, w]: "ok" with the value *)
(* or "raise" with the error, and w the entries the call writes.           *)

Key(m, a, kw) == [m |-> m, a |-> a, kw |-> kw]

EmptyCache == <<>>

Merge(f, g) ==
    IF DOMAIN g = {} THEN f
    ELSE IF DOMAIN f = {} THEN g
    ELSE [k \in (DOMAIN f) \cup (DOMAIN g) |-> IF k \in DOMAIN f THEN f[k] ELSE g[k]]

Entry(k, v) == [x \in {k} |-> v]

Ok(v, w) == [st |-> "ok", v |-> v, w |-> w]

Raise(e, w) == [st |-> "raise", v |-> e, w |-> w]

\* A variant of the memo table that finds an entry by the method and its
\* arguments alone, whatever the keyword arguments.
Memo_any_keyword(c, k, outs) ==
    LET same == {q \in DOMAIN c : q.m = k.m /\ q.a = k.a}
    IN  IF same # {} THEN {Ok(c[CHOOSE q \in same : TRUE], EmptyCache)}
        ELSE {IF o.st = "ok" THEN Ok(o.v, Merge(o.w, Entry(k, o.v))) ELSE o : o \in outs}

Memo(c, k, outs) ==
    IF k \in DOMAIN c THEN {Ok(c[k], EmptyCache)}
    ELSE {IF o.st = "ok" THEN Ok(o.v, Merge(o.w, Entry(k, o.v))) ELSE o : o \in outs}

-----------------------------------------------------------------------------
(* The methods of FiniteTorsLattice, on the instance's lattice and memo    *)
(* table c.  Each gives the set of outcomes the call can have.             *)

zero(c) == Memo(c, Key("zero", <<>>, <<>>), {Ok(bottom(lattice), EmptyCache)})

whole(c) == Memo(c, Key("whole", <<>>, <<>>), {Ok(top(lattice), EmptyCache)})

simples(c) ==
    Memo(c, Key("simples", <<>>, <<>>),
         {Ok(upper_covers(lattice, z.v), z.w) : z \in zero(c)})

\* A variant of all_bricks that leaves out the top element.
all_bricks_below_top(c) ==
    Memo(c, Key("all_bricks", <<>>, <<>>),
         {Ok(join_irreducibles(lattice) \ {top(lattice)}, EmptyCache)})

all_bricks(c) ==
    Memo(c, Key("all_bricks", <<>>, <<>>), {Ok(join_irreducibles(lattice), EmptyCache)})

\* A variant of kappa that has a value on the join-irreducibles only.
kappa_of_irreducibles(c, T) ==
    Memo(c, Key("kappa", <<T>>, <<>>),
         {Ok(IF T \in join_irreducibles(lattice) THEN _kappa(lattice, T) ELSE None,
             EmptyCache)})

kappa(c, T) ==
    Memo(c, Key("kappa", <<T>>, <<>>), {Ok(_extended_kappa(lattice, T), EmptyCache)})

\* The one value kappa(T) returns (kappa has a single outcome and never raises).
kappa_v(c, T) == (CHOOSE o \in kappa(c, T) : TRUE).v

\* The entries the calls kappa(j), j in J, write.
kappa_w(c, J) ==
    Merge(EmptyCache,
          [k \in {Key("kappa", <<j>>, <<>>) : j \in J} \ DOMAIN c |-> kappa_v(c, k.a[1])])

\* A variant of bricks_in_tors that does not compare the bricks with T.
bricks_in_tors_unfiltered(c, T) ==
    Memo(c, Key("bricks_in_tors", <<T>>, <<>>), {Ok(ab.v, ab.w) : ab \in all_bricks(c)})

bricks_in_tors(c, T) ==
    Memo(c, Key("bricks_in_tors", <<T>>, <<>>),
         {Ok({j \in ab.v : is_lequal(lattice, j, T)}, ab.w) : ab \in all_bricks(c)})

\* A variant of bricks_in_torf that takes the bricks whose kappa lies below T.
bricks_in_torf_below(c, T) ==
    UNION {
        LET absent == {j \in ab.v : kappa_v(c, j) = None}
        IN  IF absent = {}
            THEN {Ok({j \in ab.v : is_lequal(lattice, kappa_v(c, j), T)},
                     Merge(ab.w, kappa_w(c, ab.v)))}
            ELSE {Raise("NotAnElement", Merge(ab.w, kappa_w(c, P \cup {f}))) :
                     f \in absent, P \in SUBSET (ab.v \ absent)}
        : ab \in all_bricks(c)}

\* is_gequal(None, T) raises: None is no element of the poset.  The bricks
\* are visited in the set's iteration order, so the kappa entries written
\* before the raise are those of any set of bricks with a kappa and of the
\* one brick without that stops the loop.
bricks_in_torf_body(c, T) ==
    UNION {
        LET absent == {j \in ab.v : kappa_v(c, j) = None}
        IN  IF absent = {}
            THEN {Ok({j \in ab.v : is_gequal(lattice, kappa_v(c, j), T)},
                     Merge(ab.w, kappa_w(c, ab.v)))}
            ELSE {Raise("NotAnElement", Merge(ab.w, kappa_w(c, P \cup {f}))) :
                     f \in absent, P \in SUBSET (ab.v \ absent)}
        : ab \in all_bricks(c)}

bricks_in_torf(c, T) == Memo(c, Key("bricks_in_torf", <<T>>, <<>>), bricks_in_torf_body(c, T))

\* A variant of bricks that never checks that U <= T.
bricks_unchecked(c, U, T, check) ==
    {IF bf.st = "raise" THEN Raise(bf.v, Merge(bt.w, bf.w))
     ELSE Ok(bt.v \cap bf.v, Merge(bt.w, bf.w)) :
         bt \in bricks_in_tors(c, T), bf \in bricks_in_torf(c, U)}

bricks_body(c, U, T, check) ==
    IF check /\ ~is_lequal(lattice, U, T)
    THEN {Raise("NotAnInterval", EmptyCache)}
    ELSE {IF bf.st = "raise" THEN Raise(bf.v, Merge(bt.w, bf.w))
          ELSE Ok(bt.v \cap bf.v, Merge(bt.w, bf.w)) :
              bt \in bricks_in_tors(c, T), bf \in bricks_in_torf(c, U)}

bricks(c, U, T, check) == Memo(c, Key("bricks", <<U, T>>, <<check>>), bricks_body(c, U, T, check))

\* list(bricks_in)[0]: the first element in the frozenset's iteration order,
\* any of its elements; IndexError when it is empty.
label_body(c, U, T, check) ==
    UNION {
        IF bricks_in.st = "raise" THEN {bricks_in}
        ELSE IF check /\ Cardinality(bricks_in.v) > 1
             THEN {Raise("NotACoveringRelation", bricks_in.w)}
        ELSE IF bricks_in.v = {} THEN {Raise("IndexError", bricks_in.w)}
        ELSE {Ok(b, bricks_in.w) : b \in bricks_in.v}
        : bricks_in \in bricks(c, U, T, TRUE)}

label(c, U, T, check) == Memo(c, Key("label", <<U, T>>, <<check>>), label_body(c, U, T, check))

\* A variant of plus that returns U itself.
plus_nothing(c, U) == Memo(c, Key("plus", <<U>>, <<>>), {Ok(U, w.w) : w \in whole(c)})

plus(c, U) ==
    Memo(c, Key("plus", <<U>>, <<>>),
         {IF U = w.v THEN Ok(U, w.w)
          ELSE LET upper == upper_covers(lattice, U) IN Ok(join(lattice, upper), w.w) :
              w \in whole(c)})

\* A variant of minus that goes down to the bottom.
minus_bottom(c, T) == Memo(c, Key("minus", <<T>>, <<>>), {Ok(z.v, z.w) : z \in zero(c)})

minus(c, T) ==
    Memo(c, Key("minus", <<T>>, <<>>),
         {IF T = z.v THEN Ok(T, z.w)
          ELSE LET lower == lower_covers(lattice, T) IN Ok(meet(lattice, lower), z.w) :
              z \in zero(c)})

\* A variant of is_wide_itv that takes every interval for wide.
is_wide_itv_always(c, U, T, check) ==
    IF check /\ ~is_lequal(lattice, U, T) THEN {Raise("NotAnInterval", EmptyCache)}
    ELSE {Ok(TRUE, EmptyCache)}

is_wide_itv(c, U, T, check) ==
    IF check /\ ~is_lequal(lattice, U, T) THEN {Raise("NotAnInterval", EmptyCache)}
    ELSE IF U = T THEN {Ok(TRUE, EmptyCache)}
    ELSE LET covers == {x \in upper_covers(lattice, U) : is_lequal(lattice, x, T)}
         IN  {Ok(T = join(lattice, covers), EmptyCache)}

is_ice_itv(c, U, T, check) ==
    IF check /\ ~is_lequal(lattice, U, T) THEN {Raise("NotAnInterval", EmptyCache)}
    ELSE {Ok(is_lequal(lattice, T, p.v), p.w) : p \in plus(c, U)}

is_ike_itv(c, U, T, check) ==
    IF check /\ ~is_lequal(lattice, U, T) THEN {Raise("NotAnInterval", EmptyCache)}
    ELSE {Ok(is_lequal(lattice, m.v, U), m.w) : m \in minus(c, T)}

\* A variant of wide_lequal that compares kappa(U) and kappa(T) the other way.
wide_lequal_reversed(c, U, T) ==
    LET kappa_U == kappa_v(c, U)
        kappa_T == kappa_v(c, T)
        w == kappa_w(c, {U, T})
    IN  IF ~is_lequal(lattice, U, T) THEN {Ok(FALSE, w)}
        ELSE IF kappa_U = None \/ kappa_T = None THEN {Raise("NotAnElement", w)}
        ELSE {Ok(is_lequal(lattice, kappa_U, kappa_T), w)}

\* kappa(U) and kappa(T) are both computed first; is_gequal raises on None.
wide_lequal(c, U, T) ==
    LET kappa_U == kappa_v(c, U)
        kappa_T == kappa_v(c, T)
        w == kappa_w(c, {U, T})
    IN  IF ~is_lequal(lattice, U, T) THEN {Ok(FALSE, w)}
        ELSE IF kappa_U = None \/ kappa_T = None THEN {Raise("NotAnElement", w)}
        ELSE {Ok(is_gequal(lattice, kappa_U, kappa_T), w)}

\* LatticePoset((self, self.wide_lequal)): the digraph of the pairs the
\* function accepts, its reachability as the order, which must have no
\* cycle, and then every pair of elements a join and a meet.
RECURSIVE Reach(_)
Reach(R) ==
    LET step == R \cup {<<r[1][1], r[2][2]>> : r \in {r \in R \X R : r[1][2] = r[2][1]}}
    IN  IF step = R THEN R ELSE Reach(step)

\* A variant of wide_lattice that returns the order without looking for
\* the joins and the meets.
wide_lattice_unchecked(c) ==
    LET E == Elems(lattice)
        rel == {p \in E \X E : \E o \in wide_lequal(c, p[1], p[2]) : o.st = "ok" /\ o.v}
    IN  {Ok([n |-> lattice.n, le |-> Reach(rel)], kappa_w(c, E))}

wide_lattice(c) ==
    LET E == Elems(lattice)
        fails == {p \in E \X E : \E o \in wide_lequal(c, p[1], p[2]) : o.st = "raise"}
    IN  IF fails # {}
        THEN {Raise("NotAnElement", kappa_w(c, S)) : S \in {X \in SUBSET E : \E p \in fails : {p[1], p[2]} \subseteq X}}
        ELSE LET rel == {p \in E \X E : \E o \in wide_lequal(c, p[1], p[2]) : o.v}
                 W == [n |-> lattice.n, le |-> Reach(rel)]
                 w == kappa_w(c, E)
             IN  IF \E x, y \in E : x # y /\ <<x, y>> \in W.le /\ <<y, x>> \in W.le
                 THEN {Raise("NotAPoset", w)}
                 ELSE IF \E x, y \in E : ~HasJoin(W, x, y) \/ ~HasMeet(W, x, y)
                 THEN {Raise("NotALattice", w)}
                 ELSE {Ok(W, w)}

\* indec_tau_rigid() is all_bricks().
indec_tau_rigid(c) == all_bricks(c)

has_tau_rigid_summand_body(c, M, check) ==
    UNION {
        IF check /\ M \notin itr.v
        THEN {Raise("NotJoinIrreducible", itr.w)}
        ELSE {Ok({T \in Elems(lattice) :
                     is_lequal(lattice, M, T) /\ is_lequal(lattice, T, M_plus.v)},
                 Merge(IF check THEN itr.w ELSE EmptyCache, M_plus.w)) :
                 M_plus \in plus(c, M)}
        : itr \in indec_tau_rigid(c)}

has_tau_rigid_summand(c, M, check) ==
    Memo(c, Key("has_tau_rigid_summand", <<M>>, <<check>>),
         has_tau_rigid_summand_body(c, M, check))

\* A variant of has_support_summand that joins all the simples, S included.
has_support_summand_all_simples(c, S, check) ==
    UNION {
        IF check /\ S \notin sim.v
        THEN {Raise("NotASimple", sim.w)}
        ELSE {Ok({T \in Elems(lattice) : is_lequal(lattice, T, join(lattice, sim.v))}, sim.w)}
        : sim \in simples(c)}

has_support_summand_body(c, S, check) ==
    UNION {
        IF check /\ S \notin sim.v
        THEN {Raise("NotASimple", sim.w)}
        ELSE LET non_S_simple == sim.v \ {S}
                 non_S_Serre == join(lattice, non_S_simple)
             IN  {Ok({T \in Elems(lattice) : is_lequal(lattice, T, non_S_Serre)}, sim.w)}
        : sim \in simples(c)}

has_support_summand(c, S, check) ==
    Memo(c, Key("has_support_summand", <<S>>, <<check>>),
         has_support_summand_body(c, S, check))

\* The entries the calls m(x, check = False), x in X, write, for m one of
\* has_tau_rigid_summand and has_support_summand (each has one outcome).
RECURSIVE summand_w(_, _, _)
summand_w(c, m, X) ==
    IF X = {} THEN EmptyCache
    ELSE LET x == CHOOSE y \in X : TRUE
             o == IF m = "has_tau_rigid_summand"
                  THEN CHOOSE r \in has_tau_rigid_summand(c, x, FALSE) : TRUE
                  ELSE CHOOSE r \in has_support_summand(c, x, FALSE) : TRUE
         IN  Merge(o.w, summand_w(c, m, X \ {x}))

projectives(c, T) ==
    {Ok({M \in itr.v : \E h \in has_tau_rigid_summand(c, M, FALSE) : T \in h.v},
        Merge(itr.w, summand_w(c, "has_tau_rigid_summand", itr.v))) :
        itr \in indec_tau_rigid(c)}

composition_factors(c, T) ==
    {Ok({S \in sim.v : \E h \in has_support_summand(c, S, FALSE) : T \notin h.v},
        Merge(sim.w, summand_w(c, "has_support_summand", sim.v))) :
        sim \in simples(c)}

is_sincere(c, T) ==
    {Ok(Cardinality(cf.v) = Cardinality(sim.v), Merge(cf.w, sim.w)) :
        cf \in composition_factors(c, T), sim \in simples(c)}

\* A variant of number_of_projs that counts every projective of T.
number_of_projs_all(c, arg) ==
    LET T == arg[Len(arg)]
    IN  {Ok(Cardinality(p.v), p.w) : p \in projectives(c, T)}

\* arg is <<T>> for an element and <<U, T>> for an interval.
number_of_projs(c, arg) ==
    LET T == arg[Len(arg)]
    IN  UNION {
            LET U == IF Len(arg) = 2 THEN arg[1] ELSE z.v
                T_minus_U == {M \in p.v : ~is_lequal(lattice, M, U)}
            IN  {Ok(Cardinality(T_minus_U),
                    Merge(IF Len(arg) = 2 THEN EmptyCache ELSE z.w, p.w))}
            : z \in zero(c), p \in projectives(c, T)}

-----------------------------------------------------------------------------
Init ==
    /\ lattice \in Lattices
    /\ tors = FALSE
    /\ cache = EmptyCache
    /\ calls = 0
    /\ ret = <<"none", <<>>, <<>>, "none", None>>

\* TorsLattice(data): the lattice of the data, wrapped as a FiniteTorsLattice
\* when it is semidistributive.
TorsLattice ==
    /\ ~tors
    /\ calls = 0
    /\ IF is_semidistributive(lattice)
       THEN tors' = TRUE /\ ret' = <<"TorsLattice", <<>>, <<>>, "ok", None>>
       ELSE tors' = FALSE /\ ret' = <<"TorsLattice", <<>>, <<>>, "raise", "NotSemidistributive">>
    /\ UNCHANGED <<lattice, cache, calls>>

\* The calls the model follows: a first call, then the same call again.
Ready(op, a, kw) ==
    \/ calls = 0
    \/ calls < MaxCalls /\ Op = op /\ Args = a /\ Kwargs = kw

\* What a call leaves behind: its outcome in ret, its entries in the memo table.
Returns(op, a, kw, o) ==
    /\ ret' = <<op, a, kw, o.st, o.v>>
    /\ cache' = Merge(cache, o.w)
    /\ calls' = calls + 1
    /\ UNCHANGED <<lattice, tors>>

Call_kappa(j) ==
    /\ Ready("_kappa", <<j>>, <<>>)
    /\ j \in join_irreducibles(lattice)
    /\ Returns("_kappa", <<j>>, <<>>, Ok(_kappa(lattice, j), EmptyCache))

Call_extended_kappa(x) ==
    /\ Ready("_extended_kappa", <<x>>, <<>>)
    /\ LET o == _extended_kappa_call(lattice, x)
       IN  Returns("_extended_kappa", <<x>>, <<>>, [st |-> o.st, v |-> o.v, w |-> EmptyCache])

Simples ==
    /\ tors /\ Ready("simples", <<>>, <<>>)
    /\ \E o \in simples(cache) : Returns("simples", <<>>, <<>>, o)

AllBricks ==
    /\ tors /\ Ready("all_bricks", <<>>, <<>>)
    /\ \E o \in all_bricks(cache) : Returns("all_bricks", <<>>, <<>>, o)

Kappa(T) ==
    /\ tors /\ Ready("kappa", <<T>>, <<>>)
    /\ \E o \in kappa(cache, T) : Returns("kappa", <<T>>, <<>>, o)

BricksInTors(T) ==
    /\ tors /\ Ready("bricks_in_tors", <<T>>, <<>>)
    /\ \E o \in bricks_in_tors(cache, T) : Returns("bricks_in_tors", <<T>>, <<>>, o)

BricksInTorf(T) ==
    /\ tors /\ Ready("bricks_in_torf", <<T>>, <<>>)
    /\ \E o \in bricks_in_torf(cache, T) : Returns("bricks_in_torf", <<T>>, <<>>, o)

Bricks(U, T, check) ==
    /\ tors /\ Ready("bricks", <<U, T>>, <<check>>)
    /\ \E o \in bricks(cache, U, T, check) : Returns("bricks", <<U, T>>, <<check>>, o)

Label(U, T, check) ==
    /\ tors /\ Ready("label", <<U, T>>, <<check>>)
    /\ \E o \in label(cache, U, T, check) : Returns("label", <<U, T>>, <<check>>, o)

Plus(U) ==
    /\ tors /\ Ready("plus", <<U>>, <<>>)
    /\ \E o \in plus(cache, U) : Returns("plus", <<U>>, <<>>, o)

Minus(T) ==
    /\ tors /\ Ready("minus", <<T>>, <<>>)
    /\ \E o \in minus(cache, T) : Returns("minus", <<T>>, <<>>, o)

IsWideItv(U, T, check) ==
    /\ tors /\ Ready("is_wide_itv", <<U, T>>, <<check>>)
    /\ \E o \in is_wide_itv(cache, U, T, check) : Returns("is_wide_itv", <<U, T>>, <<check>>, o)

IsIceItv(U, T, check) ==
    /\ tors /\ Ready("is_ice_itv", <<U, T>>, <<check>>)
    /\ \E o \in is_ice_itv(cache, U, T, check) : Returns("is_ice_itv", <<U, T>>, <<check>>, o)

IsIkeItv(U, T, check) ==
    /\ tors /\ Ready("is_ike_itv", <<U, T>>, <<check>>)
    /\ \E o \in is_ike_itv(cache, U, T, check) : Returns("is_ike_itv", <<U, T>>, <<check>>, o)

WideLequal(U, T) ==
    /\ tors /\ Ready("wide_lequal", <<U, T>>, <<>>)
    /\ \E o \in wide_lequal(cache, U, T) : Returns("wide_lequal", <<U, T>>, <<>>, o)

WideLattice ==
    /\ tors /\ Ready("wide_lattice", <<>>, <<>>)
    /\ \E o \in wide_lattice(cache) : Returns("wide_lattice", <<>>, <<>>, o)

HasTauRigidSummand(M, check) ==
    /\ tors /\ Ready("has_tau_rigid_summand", <<M>>, <<check>>)
    /\ \E o \in has_tau_rigid_summand(cache, M, check) :
          Returns("has_tau_rigid_summand", <<M>>, <<check>>, o)

HasSupportSummand(S, check) ==
    /\ tors /\ Ready("has_support_summand", <<S>>, <<check>>)
    /\ \E o \in has_support_summand(cache, S, check) :
          Returns("has_support_summand", <<S>>, <<check>>, o)

Projectives(T) ==
    /\ tors /\ Ready("projectives", <<T>>, <<>>)
    /\ \E o \in projectives(cache, T) : Returns("projectives", <<T>>, <<>>, o)

CompositionFactors(T) ==
    /\ tors /\ Ready("composition_factors", <<T>>, <<>>)
    /\ \E o \in composition_factors(cache, T) : Returns("composition_factors", <<T>>, <<>>, o)

IsSincere(T) ==
    /\ tors /\ Ready("is_sincere", <<T>>, <<>>)
    /\ \E o \in is_sincere(cache, T) : Returns("is_sincere", <<T>>, <<>>, o)

NumberOfProjs(arg) ==
    /\ tors /\ Ready("number_of_projs", arg, <<>>)
    /\ \E o \in number_of_projs(cache, arg) : Returns("number_of_projs", arg, <<>>, o)

Next ==
    \/ TorsLattice
    \/ \E j \in Elems(lattice) : Call_kappa(j)
    \/ \E x \in Elems(lattice) : Call_extended_kappa(x)
    \/ Simples
    \/ AllBricks
    \/ \E T \in Elems(lattice) : Kappa(T)
    \/ \E T \in Elems(lattice) : BricksInTors(T)
    \/ \E T \in Elems(lattice) : BricksInTorf(T)
    \/ \E U, T \in Elems(lattice), check \in BOOLEAN : Bricks(U, T, check)
    \/ \E U, T \in Elems(lattice), check \in BOOLEAN : Label(U, T, check)
    \/ \E U \in Elems(lattice) : Plus(U)
    \/ \E T \in Elems(lattice) : Minus(T)
    \/ \E U, T \in Elems(lattice), check \in BOOLEAN : IsWideItv(U, T, check)
    \/ \E U, T \in Elems(lattice), check \in BOOLEAN : IsIceItv(U, T, check)
    \/ \E U, T \in Elems(lattice), check \in BOOLEAN : IsIkeItv(U, T, check)
    \/ \E U, T \in Elems(lattice) : WideLequal(U, T)
    \/ WideLattice
    \/ \E M \in Elems(lattice), check \in BOOLEAN : HasTauRigidSummand(M, check)
    \/ \E S \in Elems(lattice), check \in BOOLEAN : HasSupportSummand(S, check)
    \/ \E T \in Elems(lattice) : Projectives(T)
    \/ \E T \in Elems(lattice) : CompositionFactors(T)
    \/ \E T \in Elems(lattice) : IsSincere(T)
    \/ \E T \in Elems(lattice) : NumberOfProjs(<<T>>)
    \/ \E U, T \in Elems(lattice) : NumberOfProjs(<<U, T>>)

Spec == Init /\ [][Next]_vars

-----------------------------------------------------------------------------
(* The memo tables: any calls of the memoized methods, one after another,  *)
(* on one instance.                                                        *)

InitMemo ==
    /\ lattice \in UNION {LatticesOfSize(n) : n \in 1..MemoSize}
    /\ tors = FALSE
    /\ cache = EmptyCache
    /\ calls = 0
    /\ ret = <<"none", <<>>, <<>>, "none", None>>

\* The calls the specification follows: any first call, and then calls on
\* the elements the call before was on.
Follows(a) == calls = 0 \/ \A i \in DOMAIN a : \E i2 \in DOMAIN Args : a[i] = Args[i2]

Then(op, a, kw, outs) ==
    /\ tors /\ calls < MemoCalls /\ Follows(a)
    /\ \E o \in outs : Returns(op, a, kw, o)

ThenKappa(T) == Then("kappa", <<T>>, <<>>, kappa(cache, T))

ThenBricksInTors(T) == Then("bricks_in_tors", <<T>>, <<>>, bricks_in_tors(cache, T))

ThenBricksInTorf(T) == Then("bricks_in_torf", <<T>>, <<>>, bricks_in_torf(cache, T))

ThenBricks(U, T, check) == Then("bricks", <<U, T>>, <<check>>, bricks(cache, U, T, check))

ThenLabel(U, T, check) == Then("label", <<U, T>>, <<check>>, label(cache, U, T, check))

ThenPlus(U) == Then("plus", <<U>>, <<>>, plus(cache, U))

ThenMinus(T) == Then("minus", <<T>>, <<>>, minus(cache, T))

ThenHasTauRigidSummand(M, check) ==
    Then("has_tau_rigid_summand", <<M>>, <<check>>, has_tau_rigid_summand(cache, M, check))

ThenHasSupportSummand(S, check) ==
    Then("has_support_summand", <<S>>, <<check>>, has_support_summand(cache, S, check))

NextMemo ==
    \/ TorsLattice
    \/ \E T \in Elems(lattice) : ThenKappa(T)
    \/ \E T \in Elems(lattice) : ThenBricksInTors(T)
    \/ \E T \in Elems(lattice) : ThenBricksInTorf(T)
    \/ \E U, T \in Elems(lattice), check \in BOOLEAN : ThenBricks(U, T, check)
    \/ \E U, T \in Elems(lattice), check \in BOOLEAN : ThenLabel(U, T, check)
    \/ \E U \in Elems(lattice) : ThenPlus(U)
    \/ \E T \in Elems(lattice) : ThenMinus(T)
    \/ \E M \in Elems(lattice), check \in BOOLEAN : ThenHasTauRigidSummand(M, check)
    \/ \E S \in Elems(lattice), check \in BOOLEAN : ThenHasSupportSummand(S, check)

SpecMemo == InitMemo /\ [][NextMemo]_vars

-----------------------------------------------------------------------------
(* The properties.  In a state after a call, ret holds the call and its    *)
(* outcome; U and T below are the arguments of an interval call.           *)

ArgU == Args[1]

ArgT == Args[2]

IsCall(op) == calls > 0 /\ Op = op

Checked == Kwargs = <<TRUE>>

IsInterval(U, T) == is_lequal(lattice, U, T)

IsCover(U, T) == T \in upper_covers(lattice, U)

\* The outcome of a call that has one outcome.
TheOutcome(outs) == CHOOSE o \in outs : TRUE

\* The heart of (U, T) as a first call computes it.
Heart(U, T) == TheOutcome(bricks(EmptyCache, U, T, FALSE))

\* C1: in a semidistributive lattice, for every covering relation U covered
\* by T, bricks((U,T)) is bricks_in_tors(T) & bricks_in_torf(U) and has
\* exactly one element, and label((U,T)) with check enabled returns that
\* brick without error, the first time and when called again.
C1_CoverHasOneBrick ==
    /\ (IsCall("bricks") /\ IsCover(ArgU, ArgT)) =>
          /\ Status = "ok"
          /\ Cardinality(Value) = 1
          /\ Value = TheOutcome(bricks_in_tors(EmptyCache, ArgT)).v
                        \cap TheOutcome(bricks_in_torf(EmptyCache, ArgU)).v
    /\ (IsCall("label") /\ Checked /\ IsCover(ArgU, ArgT)) =>
          /\ Status = "ok"
          /\ Heart(ArgU, ArgT).st = "ok"
          /\ Heart(ArgU, ArgT).v = {Value}
          /\ \A o \in label(cache, ArgU, ArgT, TRUE) : o.st = "ok" /\ o.v = Value

C1_Witness ==
    /\ IsCall("label") /\ Checked /\ calls = 2
    /\ IsCover(ArgU, ArgT)
    /\ Status = "ok"
    /\ Value # ArgT

\* C2: in a semidistributive lattice, an interval (U,T) with U <= T that
\* is_wide_itv classifies wide is classified ICE by is_ice_itv and IKE by
\* is_ike_itv; so an interval that is not ICE, or not IKE, is not wide.
C2_WideIsIceAndIke ==
    /\ (IsCall("is_wide_itv") /\ IsInterval(ArgU, ArgT) /\ Status = "ok" /\ Value) =>
          /\ \A o \in is_ice_itv(cache, ArgU, ArgT, TRUE) : o.st = "ok" /\ o.v
          /\ \A o \in is_ike_itv(cache, ArgU, ArgT, TRUE) : o.st = "ok" /\ o.v
    /\ ((IsCall("is_ice_itv") \/ IsCall("is_ike_itv"))
           /\ IsInterval(ArgU, ArgT) /\ Status = "ok" /\ ~Value) =>
          \A o \in is_wide_itv(cache, ArgU, ArgT, TRUE) : o.st = "ok" /\ ~o.v

C2_Witness ==
    /\ IsCall("is_wide_itv") /\ Status = "ok" /\ Value
    /\ IsInterval(ArgU, ArgT)
    /\ ArgU # ArgT /\ ~IsCover(ArgU, ArgT)
    /\ ArgU # bottom(lattice) /\ ArgT # top(lattice)

\* C3: for a join-irreducible j whose kappa is defined, kappa(j) lies above
\* the lower cover of j and not above j, and every element with these two
\* properties lies below kappa(j).  It is stated of the method kappa and of
\* the function _kappa.
C3_KappaIsGreatest ==
    ((IsCall("kappa") \/ IsCall("_kappa"))
        /\ Args[1] \in join_irreducibles(lattice) /\ Value # None) =>
       LET j == Args[1]
           lc == CHOOSE y \in lower_covers(lattice, j) : TRUE
       IN  /\ Value \in Elems(lattice)
           /\ is_lequal(lattice, lc, Value)
           /\ ~is_lequal(lattice, j, Value)
           /\ \A x \in Elems(lattice) :
                 (is_lequal(lattice, lc, x) /\ ~is_lequal(lattice, j, x)) =>
                     is_lequal(lattice, x, Value)

C3_Witness ==
    /\ IsCall("kappa")
    /\ Args[1] \in join_irreducibles(lattice)
    /\ Value # None
    /\ Value \notin lower_covers(lattice, Args[1])
    /\ Value # top(lattice)

\* The value of wide_lequal(U, T) in the current state, None when it raises.
WideLe(U, T) ==
    LET o == TheOutcome(wide_lequal(cache, U, T))
    IN  IF o.st = "ok" THEN o.v ELSE None

\* C4: on a semidistributive lattice wide_lequal never fails and is a
\* partial order: reflexive, antisymmetric and transitive.
C4_WideLequalIsPartialOrder ==
    IsCall("wide_lequal") =>
       /\ Status = "ok"
       /\ Value \in BOOLEAN
       /\ Value = (is_lequal(lattice, ArgU, ArgT)
                     /\ is_gequal(lattice, kappa_v(cache, ArgU), kappa_v(cache, ArgT)))
       /\ (ArgU = ArgT) => Value
       /\ (Value /\ WideLe(ArgT, ArgU) = TRUE) => ArgU = ArgT
       /\ \A V \in Elems(lattice) :
             /\ WideLe(ArgT, V) \in BOOLEAN
             /\ (Value /\ WideLe(ArgT, V)) => WideLe(ArgU, V) = TRUE

C4_Witness ==
    /\ IsCall("wide_lequal") /\ Status = "ok" /\ Value
    /\ ArgU # ArgT
    /\ \E V \in Elems(lattice) : V # ArgT /\ WideLe(ArgT, V) = TRUE
    /\ \E V \in Elems(lattice) : is_lequal(lattice, ArgT, V) /\ WideLe(ArgT, V) = FALSE

\* The bricks below T, and the bricks of the heart of (U, T), read off the
\* lattice: the join-irreducibles j <= T, and those of them with kappa(j) >= U.
BricksBelow(T) == {j \in join_irreducibles(lattice) : is_lequal(lattice, j, T)}

BricksOfHeart(U, T) ==
    {j \in BricksBelow(T) : is_gequal(lattice, _extended_kappa(lattice, j), U)}

\* C5: label((U,T)) with check enabled raises NotACoveringRelation whenever
\* the heart of the interval (U,T) has a number of bricks other than one,
\* none included, and returns the brick when there is exactly one.
C5_LabelRaisesUnlessOneBrick ==
    (IsCall("label") /\ Checked /\ IsInterval(ArgU, ArgT)) =>
       IF Cardinality(BricksOfHeart(ArgU, ArgT)) = 1
       THEN Status = "ok" /\ BricksOfHeart(ArgU, ArgT) = {Value}
       ELSE Status = "raise" /\ Value = "NotACoveringRelation"

\* C6: for a pair (U,T) with U not below T, bricks((U,T)) with check enabled
\* raises NotAnInterval and keeps no brick set; with check disabled it
\* returns bricks_in_tors(T) & bricks_in_torf(U) and does not raise.
C6_BricksOfNonInterval ==
    (IsCall("bricks") /\ ~IsInterval(ArgU, ArgT)) =>
       IF Checked
       THEN /\ Status = "raise"
            /\ Value = "NotAnInterval"
            /\ Key("bricks", Args, Kwargs) \notin DOMAIN cache
       ELSE /\ Status = "ok"
            /\ Value = TheOutcome(bricks_in_tors(EmptyCache, ArgT)).v
                          \cap TheOutcome(bricks_in_torf(EmptyCache, ArgU)).v
            /\ Value = BricksOfHeart(ArgU, ArgT)

C6_Witness ==
    /\ IsCall("bricks") /\ Checked
    /\ ~IsInterval(ArgU, ArgT) /\ ~IsInterval(ArgT, ArgU)
    /\ Status = "raise"
    /\ BricksOfHeart(ArgU, ArgT) # {}

\* C7: for an interval (U,T), bricks((U,T)) is a subset of bricks_in_tors(T),
\* and it is empty when U = T: no join-irreducible j has j <= U and
\* kappa(j) >= U.
C7_BricksWithinTors ==
    (IsCall("bricks") /\ IsInterval(ArgU, ArgT)) =>
       /\ Status = "ok"
       /\ Value \subseteq BricksBelow(ArgT)
       /\ \A bt \in bricks_in_tors(cache, ArgT) : bt.st = "ok" /\ Value \subseteq bt.v
       /\ (ArgU = ArgT) => Value = {}
       /\ \A X \in Elems(lattice) : BricksOfHeart(X, X) = {}

C7_Witness ==
    /\ IsCall("bricks") /\ IsInterval(ArgU, ArgT) /\ ArgU # ArgT
    /\ Status = "ok"
    /\ Cardinality(Value) >= 2
    /\ Value # BricksBelow(ArgT)

IsChain(L) == \A x, y \in Elems(L) : is_lequal(L, x, y) \/ is_lequal(L, y, x)

\* C8, as stated: in a chain is_wide_itv classifies every interval wide, the
\* interval from the bottom to the top of the 4-element chain included.
C8_ChainIntervalsAreWide ==
    (IsCall("is_wide_itv") /\ IsChain(lattice) /\ IsInterval(ArgU, ArgT)) =>
       Status = "ok" /\ Value

\* C8, amended: in a chain is_wide_itv classifies an interval (U,T) wide
\* exactly when U = T or T covers U; the interval from the bottom to the top
\* of the 4-element chain is not wide.
C8_ChainWideIffCoverOrTrivial ==
    (IsCall("is_wide_itv") /\ IsChain(lattice) /\ IsInterval(ArgU, ArgT)) =>
       /\ Status = "ok"
       /\ Value = (ArgU = ArgT \/ IsCover(ArgU, ArgT))
       /\ (lattice.n = 4 /\ ArgU = 0 /\ ArgT = 3) => ~Value

C8_Witness ==
    /\ IsCall("is_wide_itv") /\ IsChain(lattice) /\ lattice.n = 4
    /\ ArgU = 0 /\ ArgT = 3
    /\ Status = "ok" /\ ~Value

\* C9, as stated: in the 4-element chain 0 < 1 < 2 < 3, all_bricks() is
\* {1, 2} and simples() is {1}; simples() is always a subset of all_bricks().
C9_ChainBricksAreTheMiddle ==
    /\ (IsCall("all_bricks") /\ IsChain(lattice) /\ lattice.n = 4) => Value = {1, 2}
    /\ (IsCall("simples") /\ IsChain(lattice) /\ lattice.n = 4) => Value = {1}
    /\ IsCall("simples") => \A ab \in all_bricks(cache) : Value \subseteq ab.v

\* C9, amended: all_bricks() is the set of elements with exactly one lower
\* cover, the top included when it has one: in the 4-element chain
\* 0 < 1 < 2 < 3 it is {1, 2, 3}.  simples() is the set of upper covers of
\* the bottom, {1} in that chain, and always a subset of all_bricks().
C9_ChainBricksAreAllButBottom ==
    /\ IsCall("all_bricks") =>
          /\ Status = "ok"
          /\ Value = {x \in Elems(lattice) : Cardinality(lower_covers(lattice, x)) = 1}
          /\ IsChain(lattice) => Value = Elems(lattice) \ {bottom(lattice)}
          /\ (IsChain(lattice) /\ lattice.n = 4) => Value = {1, 2, 3}
    /\ IsCall("simples") =>
          /\ Status = "ok"
          /\ Value = upper_covers(lattice, bottom(lattice))
          /\ (IsChain(lattice) /\ lattice.n = 4) => Value = {1}
          /\ \A ab \in all_bricks(cache) : Value \subseteq ab.v

C9_Witness ==
    /\ IsCall("all_bricks") /\ IsChain(lattice) /\ lattice.n = 4
    /\ Status = "ok" /\ Value = {1, 2, 3}

\* The elements ordered by wide_lequal, as the current state answers it.
WideOrder ==
    [n |-> lattice.n,
     le |-> {p \in Elems(lattice) \X Elems(lattice) : WideLe(p[1], p[2]) = TRUE}]

IsLatticeOrder(W) == \A x, y \in Elems(W) : HasJoin(W, x, y) /\ HasMeet(W, x, y)

PlusOf(M) == IF M = top(lattice) THEN M ELSE join(lattice, upper_covers(lattice, M))

ProjectivesOf(T) ==
    {M \in join_irreducibles(lattice) :
        is_lequal(lattice, M, T) /\ is_lequal(lattice, T, PlusOf(M))}

\* C11: number_of_projs(T) is the number of projectives of T, none of which
\* lies below the bottom; number_of_projs((U,T)) is the number of the
\* projectives M of T with M not below U; projectives(T) is the set of the
\* join-irreducibles M with M <= T <= plus(M).
C11_NumberOfProjs ==
    /\ IsCall("number_of_projs") =>
          /\ Status = "ok"
          /\ Len(Args) = 1 =>
                /\ Value = Cardinality(ProjectivesOf(Args[1]))
                /\ \A M \in ProjectivesOf(Args[1]) : ~is_lequal(lattice, M, bottom(lattice))
                /\ \A p \in projectives(cache, Args[1]) : Value = Cardinality(p.v)
          /\ Len(Args) = 2 =>
                /\ Value = Cardinality({M \in ProjectivesOf(ArgT) : ~is_lequal(lattice, M, ArgU)})
                /\ \A p \in projectives(cache, ArgT) :
                      Value = Cardinality({M \in p.v : ~is_lequal(lattice, M, ArgU)})
    /\ IsCall("projectives") => Status = "ok" /\ Value = ProjectivesOf(Args[1])

C11_Witness ==
    /\ IsCall("number_of_projs") /\ Len(Args) = 2
    /\ Status = "ok"
    /\ Value >= 1
    /\ Value < Cardinality(ProjectivesOf(ArgT))

\* C12: _extended_kappa(lattice, x) never raises: it returns None when x
\* has no canonical join representation and when the kappa of a canonical
\* joinand is None, which makes the meet fail; otherwise it returns the meet
\* of the kappa of the canonical joinands of x.
C12_ExtendedKappaNeverRaises ==
    IsCall("_extended_kappa") =>
       LET CJR == canonical_joinands(lattice, Args[1])
       IN  /\ Status = "ok"
           /\ IF CJR = NoJoinands THEN Value = None
              ELSE IF \E j \in CJR : _kappa(lattice, j) = None THEN Value = None
              ELSE /\ Value \in Elems(lattice)
                   /\ Value = meet(lattice, {_kappa(lattice, j) : j \in CJR})

C12_Witness ==
    /\ IsCall("_extended_kappa")
    /\ Status = "ok" /\ Value = None
    /\ canonical_joinands(lattice, Args[1]) # NoJoinands
    /\ \E j \in canonical_joinands(lattice, Args[1]) : _kappa(lattice, j) = None
    /\ \E y \in Elems(lattice) : canonical_joinands(lattice, y) = NoJoinands

\* minus(T) read off the lattice: the meet of the lower covers of T, T itself
\* at the bottom.
MinusOf(T) == IF T = bottom(lattice) THEN T ELSE meet(lattice, lower_covers(lattice, T))

\* C13: in a semidistributive lattice, plus(U) is the join of the upper
\* covers of U (U at the top) and is_wide_itv classifies (U, plus(U)) wide;
\* minus(T) is the meet of the lower covers of T (T at the bottom) and
\* is_wide_itv classifies (minus(T), T) wide.
C13_PlusAndMinusIntervalsAreWide ==
    /\ IsCall("plus") =>
          /\ Status = "ok" /\ Value = PlusOf(Args[1])
          /\ \A o \in is_wide_itv(cache, Args[1], Value, TRUE) : o.st = "ok" /\ o.v
    /\ IsCall("minus") =>
          /\ Status = "ok" /\ Value = MinusOf(Args[1])
          /\ \A o \in is_wide_itv(cache, Value, Args[1], TRUE) : o.st = "ok" /\ o.v
    /\ (IsCall("is_wide_itv") /\ (ArgT = PlusOf(ArgU) \/ ArgU = MinusOf(ArgT))) =>
          Status = "ok" /\ Value

C13_Witness ==
    /\ IsCall("minus") /\ Status = "ok"
    /\ Cardinality(lower_covers(lattice, Args[1])) >= 2
    /\ Value # bottom(lattice)

\* The outcomes of the call m(a, kw) evaluated with an empty memo table.
Uncached(m, a, kw) ==
    CASE m = "zero" -> zero(EmptyCache)
      [] m = "whole" -> whole(EmptyCache)
      [] m = "simples" -> simples(EmptyCache)
      [] m = "all_bricks" -> all_bricks(EmptyCache)
      [] m = "kappa" -> kappa(EmptyCache, a[1])
      [] m = "bricks_in_tors" -> bricks_in_tors(EmptyCache, a[1])
      [] m = "bricks_in_torf" -> bricks_in_torf(EmptyCache, a[1])
      [] m = "bricks" -> bricks(EmptyCache, a[1], a[2], kw[1])
      [] m = "label" -> label(EmptyCache, a[1], a[2], kw[1])
      [] m = "plus" -> plus(EmptyCache, a[1])
      [] m = "minus" -> minus(EmptyCache, a[1])
      [] m = "has_tau_rigid_summand" -> has_tau_rigid_summand(EmptyCache, a[1], kw[1])
      [] m = "has_support_summand" -> has_support_summand(EmptyCache, a[1], kw[1])

\* The methods that take the keyword argument check.
TakesCheck(m) == m \in {"bricks", "label", "has_tau_rigid_summand", "has_support_summand"}

\* Every entry of the memo table has the full key of a call, and is the value
\* the call returns without the table.
EntriesAreUncachedValues ==
    \A k \in DOMAIN cache :
        /\ k.kw \in (IF TakesCheck(k.m) THEN {<<TRUE>>, <<FALSE>>} ELSE {<<>>})
        /\ \E o \in Uncached(k.m, k.a, k.kw) : o.st = "ok" /\ o.v = cache[k]

\* The last call ended as it ends without the table; when it raises without
\* the table, as a checked call on an invalid argument does, it raised.
LastCallAsUncached ==
    calls > 0 =>
       /\ \E o \in Uncached(Op, Args, Kwargs) : o.st = Status /\ o.v = Value
       /\ (\A o \in Uncached(Op, Args, Kwargs) : o.st = "raise") =>
             Status = "raise" /\ Key(Op, Args, Kwargs) \notin DOMAIN cache
       /\ Status = "ok" => /\ Key(Op, Args, Kwargs) \in DOMAIN cache
                           /\ cache[Key(Op, Args, Kwargs)] = Value

\* A step keeps every entry of the table as it is.
EntriesStay == \A k \in DOMAIN cache : k \in DOMAIN cache' /\ cache'[k] = cache[k]

\* C14: after any calls of the memoized methods on one instance, every entry
\* of the memo table is keyed by the method, its arguments and its check
\* flag, equals the value of the call evaluated without the table, and is
\* never changed or removed by a later call; a call with check enabled on
\* an invalid argument raises even when the call with check disabled on the
\* same argument has an entry.
C14_MemoTableIsWriteOnce ==
    /\ [](EntriesAreUncachedValues /\ LastCallAsUncached)
    /\ [][EntriesStay]_vars

C14_Witness ==
    /\ calls = 2 /\ Op = "bricks" /\ Checked
    /\ ~IsInterval(ArgU, ArgT)
    /\ Status = "raise"
    /\ Key("bricks", Args, <<FALSE>>) \in DOMAIN cache

\* C15: on a semidistributive lattice kappa(x) is an element, never None,
\* for every element x, and kappa(j) is _kappa(j) for every join-irreducible
\* j; so bricks_in_torf and wide_lequal never hand None to is_gequal, and
\* do not raise.
C15_KappaIsDefined ==
    /\ IsCall("kappa") =>
          /\ Status = "ok"
          /\ Value # None /\ Value \in Elems(lattice)
          /\ Args[1] \in join_irreducibles(lattice) => Value = _kappa(lattice, Args[1])
          /\ \A x \in Elems(lattice) : _extended_kappa(lattice, x) # None
    /\ IsCall("bricks_in_torf") =>
          /\ Status = "ok"
          /\ \A j \in join_irreducibles(lattice) : kappa_v(cache, j) # None
    /\ IsCall("wide_lequal") =>
          /\ Status = "ok"
          /\ kappa_v(cache, ArgU) # None /\ kappa_v(cache, ArgT) # None

C15_Witness ==
    /\ IsCall("kappa") /\ Status = "ok"
    /\ Cardinality(lower_covers(lattice, Args[1])) >= 2
    /\ Value \in Elems(lattice)
    /\ Value # bottom(lattice)

\* The simples read off the lattice: the upper covers of the bottom.
SimplesOf == upper_covers(lattice, bottom(lattice))

\* C16: on a semidistributive lattice, for every simple S,
\* has_support_summand(S) does not hold S, holds every other simple and
\* holds the bottom; composition_factors(S) is {S}; and the top is sincere.
C16_SupportOfSimples ==
    /\ (IsCall("has_support_summand") /\ Args[1] \in SimplesOf) =>
          /\ Status = "ok"
          /\ Args[1] \notin Value
          /\ ~is_lequal(lattice, Args[1], join(lattice, SimplesOf \ {Args[1]}))
          /\ (SimplesOf \ {Args[1]}) \subseteq Value
          /\ bottom(lattice) \in Value
    /\ (IsCall("composition_factors") /\ Args[1] \in SimplesOf) =>
          Status = "ok" /\ Value = {Args[1]}
    /\ (IsCall("is_sincere") /\ Args[1] = top(lattice)) =>
          Status = "ok" /\ Value

C16_Witness ==
    /\ IsCall("has_support_summand") /\ Checked
    /\ Args[1] \in SimplesOf
    /\ Cardinality(SimplesOf) >= 2
    /\ Status = "ok"
    /\ Value = {bottom(lattice)} \cup (SimplesOf \ {Args[1]})

=============================================================================
